---- MODULE Spec2Model ----
(***************************************************************************)
(* Verification model of the Case-Manager calendar scheduling engine.      *)
(*                                                                         *)
(*  - the slot generators of AppointmentScheduler and AddEventModal        *)
(*    (generateTimeSlots), checked under SpecSlots;                        *)
(*  - the CalendarScreen aggregator (subscription callbacks, onDayPress,   *)
(*    updateSelectedDateEvents, updateMarkedDates), checked under          *)
(*    SpecCalendar; its login, error and Try Again paths under             *)
(*    SpecSession, and event deletion under SpecWrites;                    *)
(*  - the two scheduling forms, their validation and their Gateway writes  *)
(*    (SpecValidate, SpecDates, SpecRecurrence, SpecSubmit);               *)
(*  - AppointmentsScreen: the appointment lifecycle (SpecLifecycle) and    *)
(*    its listeners (SpecFeed).                                            *)
(*                                                                         *)
(* Calendar dates are day numbers (day 1 = 2024-01-01, day 8 = 2024-01-08, *)
(* ...); a time of day "HH:mm" is the pair <<hour, minute>>, and a slot    *)
(* Date object is the pair <<hour, minute>> set by setHours(hour, minute). *)
(***************************************************************************)
EXTENDS Integers, Sequences, FiniteSets, TLC

\* ---------------------------------------------------------------- bounds
\* Calendar days the clock and the date pickers range over.
MaxDay == 3

Days == 1..MaxDay
Hours == 0..23
Minutes == 0..59

\* Longest snapshot a subscription delivers.
MaxSnapshot == 2
\* Most 300 ms re-mark timers pending at once.
MaxTimers == 1

VARIABLES
    \* --- slot generator harness (AppointmentScheduler / AddEventModal) ---
    today,          \* the calendar day of `new Date()`
    nowHour,        \* now.getHours()
    nowMinute,      \* now.getMinutes()
    date,           \* the form's selected date (its calendar day)
    availableTimeSlots,  \* AppointmentScheduler state: slots of the last run
    timeSlots,      \* AddEventModal state: slots of the last run
    slotRuns,       \* which generators have run: subset of {"scheduler","modal"}
    \* --- CalendarScreen ---
    selected,       \* useState: the selected date
    events,         \* useState: the events list
    appointments,   \* useState: the (active) appointments list
    markedDates,    \* useState: the marker map handed to the calendar
    selectedDateEvents,  \* useState: the agenda of the selected date
    subscription,   \* the render the subscription effect's callbacks closed over, or NoSubscription
    timers,         \* pending setTimeout callbacks of onDayPress
    eventsSnapshot,       \* latest list delivered by listenToEvents, or NoSnapshot
    appointmentsSnapshot, \* latest list delivered by listenToAppointments, or NoSnapshot
    \* --- scheduling forms, AppointmentsScreen and the Gateway ---
    tzOffset,       \* the device's offset from UTC, in minutes
    scheduler,      \* AppointmentScheduler: its useState fields
    modal,          \* AddEventModal: its useState fields
    screen,         \* AppointmentsScreen: selectedAppointment, schedulerVisible,
                    \* and the button that last opened the scheduler
    inFlight,       \* Gateway writes issued and not yet settled, oldest first
    store,          \* Gateway: the appointment documents, by id
    \* --- the session and the screens' listeners ---
    currentUser,    \* useAuth(): a user is logged in
    mounted,        \* the screens that are mounted: subset of {"calendar", "appointments"}
    loading,        \* CalendarScreen useState: loading
    error,          \* CalendarScreen useState: error is not null
    retryListeners, \* CalendarScreen's listenToEvents listeners that no cleanup unsubscribes,
                    \* each as the render its callback closed over
    feed            \* AppointmentsScreen: its listeners, refresh timer, loading and error

slotVars == <<today, nowHour, nowMinute, date, availableTimeSlots, timeSlots, slotRuns>>

calendarVars == <<selected, events, appointments, markedDates, selectedDateEvents,
                  subscription, timers, eventsSnapshot, appointmentsSnapshot>>

formVars == <<tzOffset, scheduler, modal, screen, inFlight, store>>

sessionVars == <<currentUser, mounted, loading, error, retryListeners, feed>>

vars == <<today, nowHour, nowMinute, date, availableTimeSlots, timeSlots, slotRuns,
          selected, events, appointments, markedDates, selectedDateEvents,
          subscription, timers, eventsSnapshot, appointmentsSnapshot,
          tzOffset, scheduler, modal, screen, inFlight, store,
          currentUser, mounted, loading, error, retryListeners, feed>>

\* ------------------------------------------------------ slot generators
\* date-fns isToday(selectedDate): same calendar day as the clock.
isToday(selectedDate, clockDay) == selectedDate = clockDay

\* `let startHour = 9` / `let endHour = 17`.
startHourDefault == 9
endHour == 17

\* StartHour without the `startHour += 1` of the second half hour.
StartHourNoRoundUp(selectedDate, clockDay, currentHour, currentMinute) ==
    IF isToday(selectedDate, clockDay) /\ currentHour >= startHourDefault
    THEN currentHour
    ELSE startHourDefault

\* The "round up to nearest half hour" block that moves startHour.
StartHour(selectedDate, clockDay, currentHour, currentMinute) ==
    IF isToday(selectedDate, clockDay) /\ currentHour >= startHourDefault
    THEN IF currentMinute >= 30 THEN currentHour + 1 ELSE currentHour
    ELSE startHourDefault

\* The skip condition with `hour <= now.getHours()` as its second test.
SchedulerSkipThroughCurrentHour(selectedDate, clockDay, hour, minute, startHour, currentHour, currentMinute) ==
    /\ isToday(selectedDate, clockDay)
    /\ \/ (hour = startHour /\ minute < currentMinute /\ currentMinute > 30)
       \/ hour <= currentHour

\* AppointmentScheduler's skip condition inside the loop.
SchedulerSkip(selectedDate, clockDay, hour, minute, startHour, currentHour, currentMinute) ==
    /\ isToday(selectedDate, clockDay)
    /\ \/ (hour = startHour /\ minute < currentMinute /\ currentMinute > 30)
       \/ hour < currentHour

\* AddEventModal's skip condition inside the loop.
ModalSkip(selectedDate, clockDay, hour, minute, startHour, currentHour, currentMinute) ==
    /\ isToday(selectedDate, clockDay)
    /\ hour = startHour
    /\ minute < currentMinute
    /\ currentMinute > 30

\* setHours(hour) alone: the minute of the slot is lost.
SlotTimeOnTheHour(hour, minute) == <<hour, 0>>

\* slotTime.setHours(hour, minute, 0, 0): the slot's time of day.
SlotTime(hour, minute) == <<hour, minute>>

\* for (hour = startHour; hour < endHour; hour++) for (minute of [0, 30])
RECURSIVE SchedulerLoop(_, _, _, _, _, _, _)
SchedulerLoop(hour, slots, selectedDate, clockDay, startHour, currentHour, currentMinute) ==
    IF hour >= endHour THEN slots
    ELSE LET s0 == IF SchedulerSkip(selectedDate, clockDay, hour, 0, startHour, currentHour, currentMinute)
                   THEN slots ELSE Append(slots, SlotTime(hour, 0))
             s30 == IF SchedulerSkip(selectedDate, clockDay, hour, 30, startHour, currentHour, currentMinute)
                    THEN s0 ELSE Append(s0, SlotTime(hour, 30))
         IN SchedulerLoop(hour + 1, s30, selectedDate, clockDay, startHour, currentHour, currentMinute)

RECURSIVE ModalLoop(_, _, _, _, _, _, _)
ModalLoop(hour, slots, selectedDate, clockDay, startHour, currentHour, currentMinute) ==
    IF hour >= endHour THEN slots
    ELSE LET s0 == IF ModalSkip(selectedDate, clockDay, hour, 0, startHour, currentHour, currentMinute)
                   THEN slots ELSE Append(slots, SlotTime(hour, 0))
             s30 == IF ModalSkip(selectedDate, clockDay, hour, 30, startHour, currentHour, currentMinute)
                    THEN s0 ELSE Append(s0, SlotTime(hour, 30))
         IN ModalLoop(hour + 1, s30, selectedDate, clockDay, startHour, currentHour, currentMinute)

\* generateTimeSlots that rounds the start hour on every date, today or not.
generateTimeSlotsAlwaysRounds(selectedDate, clockDay, currentHour, currentMinute) ==
    SchedulerLoop(StartHour(clockDay, clockDay, currentHour, currentMinute), <<>>,
                  selectedDate, clockDay,
                  StartHour(clockDay, clockDay, currentHour, currentMinute),
                  currentHour, currentMinute)

\* AppointmentScheduler.generateTimeSlots(selectedDate) with now = (clockDay, currentHour:currentMinute)
generateTimeSlots(selectedDate, clockDay, currentHour, currentMinute) ==
    SchedulerLoop(StartHour(selectedDate, clockDay, currentHour, currentMinute), <<>>,
                  selectedDate, clockDay,
                  StartHour(selectedDate, clockDay, currentHour, currentMinute),
                  currentHour, currentMinute)

\* AddEventModal.generateTimeSlots(selectedDate)
modalGenerateTimeSlots(selectedDate, clockDay, currentHour, currentMinute) ==
    ModalLoop(StartHour(selectedDate, clockDay, currentHour, currentMinute), <<>>,
              selectedDate, clockDay,
              StartHour(selectedDate, clockDay, currentHour, currentMinute),
              currentHour, currentMinute)

\* ------------------------------------------------------ CalendarScreen
NoTime == <<>>
NoSnapshot == [delivered |-> FALSE, list |-> <<>>]
NoSubscription == [active |-> FALSE, events |-> <<>>, appointments |-> <<>>]

\* Entities the Gateway may deliver.  Times are "HH:mm" as the forms write
\* them (format(time, 'HH:mm')); an all-day event has time null.
EventPool ==
    { [id |-> "e1", date |-> 1, time |-> NoTime, isAllDay |-> TRUE,
       status |-> "upcoming", isRecurring |-> FALSE, recurrencePattern |-> "none",
       recurrenceEnd |-> 0, isAppointment |-> FALSE],
      [id |-> "e2", date |-> 1, time |-> <<9, 0>>, isAllDay |-> FALSE,
       status |-> "upcoming", isRecurring |-> TRUE, recurrencePattern |-> "daily",
       recurrenceEnd |-> 2, isAppointment |-> FALSE],
      [id |-> "e3", date |-> 1, time |-> <<8, 30>>, isAllDay |-> FALSE,
       status |-> "cancelled", isRecurring |-> FALSE, recurrencePattern |-> "none",
       recurrenceEnd |-> 0, isAppointment |-> FALSE] }

AppointmentPool ==
    { [id |-> "a1", date |-> 1, time |-> <<9, 0>>, isAllDay |-> FALSE,
       status |-> "upcoming", isRecurring |-> FALSE, recurrencePattern |-> "none",
       recurrenceEnd |-> 0, isAppointment |-> FALSE],
      [id |-> "a2", date |-> 1, time |-> <<8, 0>>, isAllDay |-> FALSE,
       status |-> "cancelled", isRecurring |-> FALSE, recurrencePattern |-> "none",
       recurrenceEnd |-> 0, isAppointment |-> FALSE] }

\* A snapshot: a complete list of documents, each document once.
Snapshots(pool) ==
    UNION { { q \in [1..n -> pool] : \A i, j \in 1..n : i # j => q[i].id # q[j].id }
            : n \in 0..MaxSnapshot }

\* a.time.localeCompare(b.time) on zero-padded "HH:mm" strings.
localeCompare(a, b) ==
    IF a[1] < b[1] THEN -1
    ELSE IF a[1] > b[1] THEN 1
    ELSE IF a[2] < b[2] THEN -1
    ELSE IF a[2] > b[2] THEN 1
    ELSE 0

\* compareEntries with the operands of localeCompare swapped.
compareEntriesSwapped(a, b) ==
    IF a.isAllDay THEN -1
    ELSE IF b.isAllDay THEN 1
    ELSE localeCompare(b.time, a.time)

\* The comparator passed to sort in updateSelectedDateEvents.
compareEntries(a, b) ==
    IF a.isAllDay THEN -1
    ELSE IF b.isAllDay THEN 1
    ELSE localeCompare(a.time, b.time)

\* Array.prototype.sort: a stable insertion sort driven by the comparator.
RECURSIVE InsertSorted(_, _)
InsertSorted(sorted, x) ==
    IF sorted = <<>> THEN <<x>>
    ELSE IF compareEntries(sorted[Len(sorted)], x) > 0
         THEN Append(InsertSorted(SubSeq(sorted, 1, Len(sorted) - 1), x), sorted[Len(sorted)])
         ELSE Append(sorted, x)

RECURSIVE sort(_)
sort(list) ==
    IF list = <<>> THEN <<>>
    ELSE InsertSorted(sort(SubSeq(list, 1, Len(list) - 1)), list[Len(list)])

\* dateAppointments.map(apt => ({...apt, category: 'appointment', isAppointment: true}))
AsAgendaEntry(apt) == [apt EXCEPT !.isAppointment = TRUE]

\* updateSelectedDateEvents(date) as run by a render holding eventsList and
\* appointmentsList: the value it passes to setSelectedDateEvents.
updateSelectedDateEvents(eventsList, appointmentsList, day) ==
    LET dateEvents == SelectSeq(eventsList, LAMBDA event : event.date = day)
        dateAppointments == SelectSeq(appointmentsList, LAMBDA apt : apt.date = day)
    IN sort(dateEvents \o [i \in 1..Len(dateAppointments) |-> AsAgendaEntry(dateAppointments[i])])

\* The marker map is modelled by its dots: markedDates[day] is the `dots`
\* array of the key `day` (empty for a day without a key).  The styling
\* fields selected / selectedColor / selectedTextColor are not modelled.
NoMarking == <<>>

\* marked[formattedDate].dots.push({key: id}), or the first dot of the date.
\* formatDateString returns a date string already in YYYY-MM-DD unchanged.
AddDot(marked, day, id) ==
    IF marked[day] # NoMarking
    THEN [marked EXCEPT ![day] = Append(@, id)]
    ELSE [marked EXCEPT ![day] = <<id>>]

\* eventsList.forEach(event => { if (event.status !== 'cancelled') ... })
RECURSIVE MarkEvents(_, _, _)
MarkEvents(marked, eventsList, i) ==
    IF i > Len(eventsList) THEN marked
    ELSE MarkEvents(IF eventsList[i].status # "cancelled"
                    THEN AddDot(marked, eventsList[i].date, eventsList[i].id)
                    ELSE marked,
                    eventsList, i + 1)

\* appointmentsList.forEach(appointment => { ... })
RECURSIVE MarkAppointments(_, _, _)
MarkAppointments(marked, appointmentsList, i) ==
    IF i > Len(appointmentsList) THEN marked
    ELSE MarkAppointments(AddDot(marked, appointmentsList[i].date, appointmentsList[i].id),
                          appointmentsList, i + 1)

\* updateMarkedDates(eventsList, appointmentsList): the value it passes to
\* setMarkedDates (marked[selected] adds styling and no dot).
updateMarkedDates(eventsList, appointmentsList) ==
    MarkAppointments(MarkEvents([d \in Days |-> NoMarking], eventsList, 1),
                     appointmentsList, 1)

\* appointmentsList.filter(apt => apt.status !== 'cancelled')
activeAppointments(appointmentsList) ==
    SelectSeq(appointmentsList, LAMBDA apt : apt.status # "cancelled")

\* ------------------------------------------------- dates and form values
\* A Date object as the device's wall clock shows it: the calendar day and
\* the minute of that day.  A "YYYY-MM-DD" string is its day number.
DateAt(day, minute) == [day |-> day, minute |-> minute]

\* null where a Date is expected
NoDate == [day |-> -1, minute |-> -1]

\* the Invalid Date object
InvalidDate == [day |-> -2, minute |-> -2]

\* date-fns isValid
isValid(d) == d # InvalidDate

\* new Date()
Now == DateAt(today, nowHour * 60 + nowMinute)

\* new Date("YYYY-MM-DD"): a date-only ISO string is midnight UTC of that
\* day, shown by the local getters tzOffset minutes later.
NewDateFromString(dateString) ==
    LET t == dateString * (24 * 60) + tzOffset
    IN  DateAt(t \div (24 * 60), t % (24 * 60))

\* The calendar's dateString parsed as an ISO string instead.
NewDateAtNoonParsedAsUtc(dateString) == NewDateFromString(dateString)

\* new Date(year, month - 1, dayOfMonth, 12, 0, 0, 0): local noon of the day.
NewDateAtNoon(dateString) == DateAt(dateString, 12 * 60)

\* What the user can type in the manual date field: a well-formed date, text
\* that is not three '-'-separated groups, or a group out of range.
NoText == [kind |-> "empty", day |-> 0]
MalformedText == [kind |-> "malformed", day |-> 0]
OutOfRangeText == [kind |-> "outOfRange", day |-> 0]
DateText(day) == [kind |-> "date", day |-> day]
ManualTexts == {DateText(d) : d \in Days} \cup {MalformedText, OutOfRangeText}

\* date-fns parse(text, 'yyyy-MM-dd', new Date()): local midnight of the
\* day, or Invalid Date.
parse(text) ==
    IF text.kind = "date" THEN DateAt(text.day, 0) ELSE InvalidDate

\* `${getFullYear()}-${getMonth() + 1}-${getDate()}`: the local day.
FormatDate(d) == d.day

\* date-fns isBefore: compares instants.
isBefore(a, b) == a.day < b.day \/ (a.day = b.day /\ a.minute < b.minute)

\* The start of the day before.
startOfDayBefore(d) == DateAt(d.day - 1, 0)

\* date-fns startOfDay
startOfDay(d) == DateAt(d.day, 0)

\* new Date(date) with setHours(time.getHours()), setMinutes(time.getMinutes())
CombineDateTime(d, t) == DateAt(d.day, t[1] * 60 + t[2])

\* Text of a required field: empty, blanks only, or a word.
Texts == {"", " ", "Dr"}

\* String.prototype.trim
trim(text) == IF text = " " THEN "" ELSE text

\* null recurrence pattern
NoPattern == "none"

\* One entry of the newErrors object.
Err(field, message) == [field |-> field, message |-> message]

\* ------------------------------------------------------------ validators
\* The duration check without its upper limit.
DurationErrorsNoUpperLimit(duration) ==
    IF duration = 0 THEN {Err("duration", "Duration is required")}
    ELSE IF duration < 15 THEN {Err("duration", "Duration must be at least 15 minutes")}
    ELSE {}

\* validateInputs, "Duration validation".
DurationErrors(duration) ==
    IF duration = 0 THEN {Err("duration", "Duration is required")}
    ELSE IF duration < 15 THEN {Err("duration", "Duration must be at least 15 minutes")}
    ELSE IF duration > 240 THEN {Err("duration", "Duration cannot exceed 4 hours")}
    ELSE {}

\* AppointmentScheduler.validateInputs over the form state f: the newErrors
\* object as its set of entries.
validateInputs(f) ==
    (IF trim(f.doctorName) = "" THEN {Err("doctorName", "Doctor name is required")} ELSE {})
    \cup (IF trim(f.specialty) = "" THEN {Err("specialty", "Specialty is required")} ELSE {})
    \cup (IF trim(f.location) = "" THEN {Err("location", "Location is required")} ELSE {})
    \cup (IF f.date = NoDate THEN {Err("date", "Date is required")}
          ELSE IF ~isValid(f.date) THEN {Err("date", "Valid date is required")}
          ELSE IF isBefore(f.date, startOfDay(Now)) /\ ~isToday(f.date.day, today)
               THEN {Err("date", "Date cannot be in the past")}
          ELSE {})
    \cup (IF f.time = NoTime THEN {Err("time", "Time is required")}
          ELSE IF f.selectedTimeSlot = NoTime /\ ~f.showManualTimeInput
               THEN {Err("time", "Please select a time slot")}
          ELSE IF isToday(f.date.day, today) /\ isBefore(CombineDateTime(f.date, f.time), Now)
               THEN {Err("time", "Time cannot be in the past")}
          ELSE {})
    \cup (IF f.isRecurring /\ f.recurrencePattern # NoPattern /\ f.recurrenceEnd # NoDate
          THEN IF ~isValid(f.recurrenceEnd) THEN {Err("recurrence", "Invalid recurrence end date")}
               ELSE IF isBefore(f.recurrenceEnd, f.date)
                    THEN {Err("recurrence", "Recurrence end date must be after appointment date")}
               ELSE {}
          ELSE IF f.isRecurring /\ f.recurrencePattern = NoPattern
               THEN {Err("recurrence", "Please select a recurrence pattern")}
          ELSE {})
    \cup DurationErrors(f.duration)

\* AddEventModal.validateForm over the form state f.
validateForm(f) ==
    (IF trim(f.title) = "" THEN {Err("title", "Event title is required")} ELSE {})
    \cup (IF trim(f.location) = "" THEN {Err("location", "Location is required")} ELSE {})
    \cup (IF f.date = NoDate THEN {Err("date", "Date is required")}
          ELSE IF ~isValid(f.date) THEN {Err("date", "Valid date is required")}
          ELSE IF isBefore(f.date, Now) /\ ~isToday(f.date.day, today)
               THEN {Err("date", "Date cannot be in the past")}
          ELSE {})
    \cup (IF ~f.isAllDay /\ f.time = NoTime THEN {Err("time", "Time is required")} ELSE {})
    \cup (IF f.isRecurring /\ f.recurrencePattern = NoPattern
          THEN {Err("recurrence", "Please select a recurrence pattern")}
          ELSE {})

\* ----------------------------------------------------------- form state
\* The persisted null of a date string.
NoDateString == NoDate.day

\* The [date] effect of AppointmentScheduler: regenerates the slots and, when
\* no slot is selected yet, selects the first one.  (availableTimeSlots itself
\* is always generateTimeSlots of the current date and is not kept here.)
SchedulerDateEffect(f) ==
    LET slots == generateTimeSlots(f.date.day, today, nowHour, nowMinute)
    IN  IF isValid(f.date) /\ f.selectedTimeSlot = NoTime /\ slots # <<>>
        THEN [f EXCEPT !.selectedTimeSlot = slots[1], !.time = slots[1]]
        ELSE f

\* AppointmentScheduler after its first render and mount effects, with no
\* appointment prop.  `picked` records the calendar day the user chose last
\* (at mount: the initialDate prop); the component does not read it.
SchedulerAtMount(initialDate) ==
    SchedulerDateEffect(
        [doctorName |-> "", specialty |-> "", location |-> "",
         date |-> NewDateFromString(initialDate),
         time |-> <<nowHour, nowMinute>>,
         errors |-> {},
         manualDateInput |-> NoText,
         showManualDateInput |-> FALSE,
         showManualTimeInput |-> FALSE,
         duration |-> 30,
         isRecurring |-> FALSE,
         recurrencePattern |-> NoPattern,
         recurrenceEnd |-> NoDate,
         selectedTimeSlot |-> NoTime,
         isSubmitting |-> FALSE,
         picked |-> initialDate])

\* The scheduler where AppointmentsScreen is not mounted.
SchedulerBlank ==
    [doctorName |-> "", specialty |-> "", location |-> "",
     date |-> NoDate, time |-> NoTime, errors |-> {},
     manualDateInput |-> NoText, showManualDateInput |-> FALSE,
     showManualTimeInput |-> FALSE, duration |-> 30, isRecurring |-> FALSE,
     recurrencePattern |-> NoPattern, recurrenceEnd |-> NoDate,
     selectedTimeSlot |-> NoTime, isSubmitting |-> FALSE, picked |-> 0]

\* The [date] effect of AddEventModal.
ModalDateEffect(f) ==
    LET slots == modalGenerateTimeSlots(f.date.day, today, nowHour, nowMinute)
    IN  IF f.date # NoDate /\ f.selectedTimeSlot = NoTime /\ slots # <<>>
        THEN [f EXCEPT !.selectedTimeSlot = slots[1], !.time = slots[1]]
        ELSE f

\* The [initialDate, visible] effect of AddEventModal: the date becomes local
\* noon of the initialDate prop.
ModalInitialDateEffect(f, initialDate) ==
    ModalDateEffect([f EXCEPT !.date = NewDateAtNoon(initialDate), !.picked = initialDate])

\* AddEventModal after its first render and mount effects.
ModalAtMount(initialDate) ==
    ModalInitialDateEffect(
        [title |-> "", location |-> "",
         date |-> NewDateFromString(initialDate),
         time |-> <<nowHour, nowMinute>>,
         isAllDay |-> FALSE,
         isRecurring |-> FALSE,
         recurrencePattern |-> NoPattern,
         recurrenceEnd |-> NoDate,
         errors |-> {},
         isSubmitting |-> FALSE,
         selectedTimeSlot |-> NoTime,
         visible |-> FALSE,
         picked |-> initialDate],
        initialDate)

\* AddEventModal.resetForm, followed by the [date] effect.
resetForm(f) ==
    ModalDateEffect([f EXCEPT !.title = "", !.date = Now, !.time = <<nowHour, nowMinute>>,
                              !.location = "", !.isAllDay = FALSE, !.isRecurring = FALSE,
                              !.recurrencePattern = NoPattern, !.recurrenceEnd = NoDate,
                              !.errors = {}, !.selectedTimeSlot = NoTime,
                              !.picked = today])

\* The modal where CalendarScreen is not mounted.
ModalBlank ==
    [title |-> "", location |-> "", date |-> NoDate, time |-> NoTime,
     isAllDay |-> FALSE, isRecurring |-> FALSE, recurrencePattern |-> NoPattern,
     recurrenceEnd |-> NoDate, errors |-> {}, isSubmitting |-> FALSE,
     selectedTimeSlot |-> NoTime, visible |-> FALSE, picked |-> 0]

\* ------------------------------------------------ Gateway and its documents
\* Most appointments addAppointment creates in one behaviour.
MaxCreated == 1
\* Most Gateway writes awaited at once.
MaxInFlight == 2

IdNames == <<"n1", "n2", "n3", "n4">>
CreatedIds == {IdNames[k] : k \in 1..MaxCreated}
AppointmentIds == {"a1"} \cup CreatedIds

\* null where an appointment or its id is expected
NoId == "none"

\* Date.prototype.toISOString(): the UTC instant, here to the minute.
ToISOString(d) == d.day * (24 * 60) + d.minute - tzOffset

\* null where a createdAt stamp is expected
NoInstant == -1

\* An id the Gateway has no document for.
NoDocument ==
    [status |-> "none", date |-> NoDateString, doctorName |-> "", specialty |-> "",
     location |-> "", createdAt |-> NoInstant]

\* The document as AppointmentsScreen and the lifecycle read it.
Document(data) ==
    [status |-> data.status, date |-> data.date, doctorName |-> data.doctorName,
     specialty |-> data.specialty, location |-> data.location,
     createdAt |-> data.createdAt]

EmptyStore == [id \in AppointmentIds |-> NoDocument]

FreeIds == {id \in CreatedIds : store[id] = NoDocument}

\* The write of handleSchedule: appointmentData, through saveAppointment with
\* the id of the appointment prop in reschedule mode and through
\* addAppointment otherwise.
ScheduleWrite(f, appointment) ==
    [dialog |-> "scheduler",
     op |-> IF appointment # NoId THEN "saveAppointment" ELSE "addAppointment",
     id |-> appointment,
     data |-> [doctorName |-> trim(f.doctorName),
               specialty |-> trim(f.specialty),
               location |-> trim(f.location),
               date |-> FormatDate(f.date),
               time |-> f.time,
               status |-> "upcoming",
               createdAt |-> ToISOString(Now),
               duration |-> IF f.duration = 0 THEN 30 ELSE f.duration,
               isRecurring |-> f.isRecurring,
               recurrencePattern |-> IF f.isRecurring /\ f.recurrencePattern # NoPattern
                                     THEN f.recurrencePattern ELSE NoPattern,
               recurrenceEnd |-> IF f.isRecurring /\ f.recurrencePattern # NoPattern
                                    /\ f.recurrenceEnd # NoDate /\ isValid(f.recurrenceEnd)
                                 THEN FormatDate(f.recurrenceEnd) ELSE NoDateString]]

\* The write of AddEventModal.handleAddEvent: eventData through addEvent.
EventWrite(f) ==
    [dialog |-> "modal",
     op |-> "addEvent",
     id |-> NoId,
     data |-> [title |-> trim(f.title),
               location |-> trim(f.location),
               date |-> FormatDate(f.date),
               time |-> IF f.isAllDay THEN NoTime ELSE f.time,
               isAllDay |-> f.isAllDay,
               status |-> "upcoming",
               isRecurring |-> f.isRecurring,
               recurrencePattern |-> IF f.isRecurring /\ f.recurrencePattern # NoPattern
                                     THEN f.recurrencePattern ELSE NoPattern,
               recurrenceEnd |-> IF f.isRecurring /\ f.recurrencePattern # NoPattern
                                    /\ f.recurrenceEnd # NoDate
                                 THEN FormatDate(f.recurrenceEnd) ELSE NoDateString]]

\* The write of updateAppointment(uid, id, {status}).
StatusWrite(id, status) ==
    [dialog |-> "screen", op |-> "updateAppointment", id |-> id,
     data |-> [status |-> status]]

\* The Gateway accepting write w: addAppointment creates a document under a
\* fresh id, saveAppointment stores the document under its id,
\* updateAppointment changes the listed fields; events are not kept here.
GatewayApply(w) ==
    IF w.op = "addAppointment"
    THEN IF FreeIds = {} THEN store
         ELSE [store EXCEPT ![CHOOSE id \in FreeIds : TRUE] = Document(w.data)]
    ELSE IF w.op = "saveAppointment"
    THEN [store EXCEPT ![w.id] = Document(w.data)]
    ELSE IF w.op = "updateAppointment"
    THEN [store EXCEPT ![w.id].status = w.data.status]
    ELSE store

\* AppointmentsScreen where it is not mounted.
ScreenBlank ==
    [selectedAppointment |-> NoId, schedulerVisible |-> FALSE, openedBy |-> "none"]

\* The forms in SpecSlots and SpecCalendar, where they are not modelled.
FormsIdle ==
    /\ tzOffset = 0
    /\ scheduler = SchedulerBlank
    /\ modal = ModalBlank
    /\ screen = ScreenBlank
    /\ inFlight = <<>>
    /\ store = EmptyStore

\* AppointmentsScreen's listeners: `subscribed` is the listener of the
\* [currentUser] effect (its cleanup unsubscribes it), `extra` counts the
\* listeners opened without keeping their unsubscribe function, and
\* `refreshTimer` is a pending setTimeout of handleAppointmentAdded.
FeedIdle ==
    [subscribed |-> FALSE, extra |-> 0, refreshTimer |-> FALSE,
     loading |-> TRUE, error |-> FALSE]

\* The session where the screens' listeners are not modelled: a user is
\* logged in.
SessionIdle ==
    /\ currentUser = TRUE
    /\ mounted = {}
    /\ loading = TRUE
    /\ error = FALSE
    /\ retryListeners = <<>>
    /\ feed = FeedIdle

\* The screen in SpecSlots, where it is not mounted.
CalendarIdle ==
    /\ selected = 1
    /\ events = <<>>
    /\ appointments = <<>>
    /\ markedDates = [d \in Days |-> NoMarking]
    /\ selectedDateEvents = <<>>
    /\ subscription = NoSubscription
    /\ timers = {}
    /\ eventsSnapshot = NoSnapshot
    /\ appointmentsSnapshot = NoSnapshot

\* The slot harness in SpecCalendar, where no form is open.
SlotsIdle ==
    /\ nowHour = 0
    /\ nowMinute = 0
    /\ date = today
    /\ availableTimeSlots = <<>>
    /\ timeSlots = <<>>
    /\ slotRuns = {}

\* CalendarScreen after its first render and mount effects, the user not
\* yet known: selected is today, the re-aggregation effect has run on the
\* empty lists.
CalendarInit ==
    /\ today \in Days
    /\ SlotsIdle
    /\ FormsIdle
    /\ currentUser = FALSE
    /\ mounted = {"calendar"}
    /\ loading = TRUE
    /\ error = FALSE
    /\ retryListeners = <<>>
    /\ feed = FeedIdle
    /\ selected = today
    /\ events = <<>>
    /\ appointments = <<>>
    /\ markedDates = [d \in Days |-> NoMarking]
    /\ selectedDateEvents = updateSelectedDateEvents(<<>>, <<>>, today)
    /\ subscription = NoSubscription
    /\ timers = {}
    /\ eventsSnapshot = NoSnapshot
    /\ appointmentsSnapshot = NoSnapshot

\* The [currentUser] effect when a user becomes known: setLoading(true),
\* setError(null), then it subscribes both listeners; their callbacks
\* close over events and appointments of this render.  It also runs
\* updateSelectedDateEvents(selected), and ends with setLoading(false).
Subscribe ==
    /\ ~currentUser
    /\ ~subscription.active
    /\ currentUser' = TRUE
    /\ loading' = FALSE
    /\ error' = FALSE
    /\ subscription' = [active |-> TRUE, events |-> events, appointments |-> appointments]
    /\ selectedDateEvents' = updateSelectedDateEvents(events, appointments, selected)
    /\ UNCHANGED <<selected, events, appointments, markedDates, timers,
                   eventsSnapshot, appointmentsSnapshot>>
    /\ UNCHANGED <<mounted, retryListeners, feed>>
    /\ UNCHANGED slotVars
    /\ UNCHANGED formVars

\* EventsCallback with the agenda recomputed from the lists the callback
\* closed over instead of the re-rendered ones.
EventsCallbackStaleAgenda(eventsList) ==
    /\ subscription.active
    /\ events' = eventsList
    /\ markedDates' = updateMarkedDates(eventsList, subscription.appointments)
    /\ selectedDateEvents' = updateSelectedDateEvents(subscription.events, subscription.appointments, selected)
    /\ eventsSnapshot' = [delivered |-> TRUE, list |-> eventsList]
    /\ UNCHANGED <<selected, appointments, subscription, timers, appointmentsSnapshot>>
    /\ UNCHANGED slotVars
    /\ UNCHANGED formVars
    /\ UNCHANGED sessionVars

\* listenToEvents callback: setEvents(eventsList); updateMarkedDates(eventsList,
\* appointments) with the appointments of the subscribing render; then the
\* [events, appointments, selected] effect re-aggregates the agenda.
EventsCallback(eventsList) ==
    /\ subscription.active
    /\ events' = eventsList
    /\ markedDates' = updateMarkedDates(eventsList, subscription.appointments)
    /\ selectedDateEvents' = updateSelectedDateEvents(eventsList, appointments, selected)
    /\ eventsSnapshot' = [delivered |-> TRUE, list |-> eventsList]
    /\ UNCHANGED <<selected, appointments, subscription, timers, appointmentsSnapshot>>
    /\ UNCHANGED slotVars
    /\ UNCHANGED formVars
    /\ UNCHANGED sessionVars

\* listenToAppointments callback: filter, setAppointments, updateMarkedDates(events,
\* activeAppointments) with the events of the subscribing render; then the
\* re-aggregation effect.
AppointmentsCallback(appointmentsList) ==
    /\ subscription.active
    /\ appointments' = activeAppointments(appointmentsList)
    /\ markedDates' = updateMarkedDates(subscription.events, activeAppointments(appointmentsList))
    /\ selectedDateEvents' = updateSelectedDateEvents(events, activeAppointments(appointmentsList), selected)
    /\ appointmentsSnapshot' = [delivered |-> TRUE, list |-> appointmentsList]
    /\ UNCHANGED <<selected, events, subscription, timers, eventsSnapshot>>
    /\ UNCHANGED slotVars
    /\ UNCHANGED formVars
    /\ UNCHANGED sessionVars

\* onDayPress(day): a press on the selected date highlights it (tempMarked
\* keeps every dots array) and arms a 300 ms timer that re-marks with this
\* render's events and appointments; every press selects the date and
\* recomputes the agenda.
onDayPress(day) ==
    /\ IF selected = day
       THEN /\ Cardinality(timers \cup {updateMarkedDates(events, appointments)}) <= MaxTimers
            /\ markedDates' = markedDates
            /\ timers' = timers \cup {updateMarkedDates(events, appointments)}
       ELSE UNCHANGED <<markedDates, timers>>
    /\ selected' = day
    /\ selectedDateEvents' = updateSelectedDateEvents(events, appointments, day)
    /\ UNCHANGED <<events, appointments, subscription, eventsSnapshot, appointmentsSnapshot>>
    /\ UNCHANGED slotVars
    /\ UNCHANGED formVars
    /\ UNCHANGED sessionVars

\* The setTimeout callback: updateMarkedDates(events, appointments) of the
\* render that armed it (a timer is kept as the map that call passes to
\* setMarkedDates).
TimerFires(timer) ==
    /\ timer \in timers
    /\ timers' = timers \ {timer}
    /\ markedDates' = timer
    /\ UNCHANGED <<selected, events, appointments, selectedDateEvents, subscription,
                   eventsSnapshot, appointmentsSnapshot>>
    /\ UNCHANGED slotVars
    /\ UNCHANGED formVars
    /\ UNCHANGED sessionVars

CalendarNext ==
    \/ Subscribe
    \/ \E eventsList \in Snapshots(EventPool) : EventsCallback(eventsList)
    \/ \E appointmentsList \in Snapshots(AppointmentPool) : AppointmentsCallback(appointmentsList)
    \/ \E day \in Days : onDayPress(day)
    \/ \E timer \in timers : TimerFires(timer)

SpecCalendar == CalendarInit /\ [][CalendarNext]_vars

\* ------------------------------------------------------- slot harness
SlotsInit ==
    /\ today \in Days
    /\ nowHour \in Hours
    /\ nowMinute \in Minutes
    /\ date \in Days
    /\ availableTimeSlots = <<>>
    /\ timeSlots = <<>>
    /\ slotRuns = {}
    /\ CalendarIdle
    /\ FormsIdle
    /\ SessionIdle

\* AppointmentScheduler: the [date] effect runs generateTimeSlots(date).
SchedulerGenerate ==
    /\ "scheduler" \notin slotRuns
    /\ availableTimeSlots' = generateTimeSlots(date, today, nowHour, nowMinute)
    /\ slotRuns' = slotRuns \cup {"scheduler"}
    /\ UNCHANGED <<today, nowHour, nowMinute, date, timeSlots>>
    /\ UNCHANGED calendarVars
    /\ UNCHANGED formVars
    /\ UNCHANGED sessionVars

\* AddEventModal: the [date] effect runs generateTimeSlots(date).
ModalGenerate ==
    /\ "modal" \notin slotRuns
    /\ timeSlots' = modalGenerateTimeSlots(date, today, nowHour, nowMinute)
    /\ slotRuns' = slotRuns \cup {"modal"}
    /\ UNCHANGED <<today, nowHour, nowMinute, date, availableTimeSlots>>
    /\ UNCHANGED calendarVars
    /\ UNCHANGED formVars
    /\ UNCHANGED sessionVars

SlotsNext == SchedulerGenerate \/ ModalGenerate

SpecSlots == SlotsInit /\ [][SlotsNext]_vars

\* ------------------------------------------------- slot generator claims
\* The 16 slots 09:00, 09:30, ..., 16:30 of a full working day.
FullDay == [i \in 1..16 |-> <<9 + ((i - 1) \div 2), 30 * ((i - 1) % 2)>>]

\* Minutes since midnight of a time of day <<hour, minute>>.
MinuteOfDay(t) == t[1] * 60 + t[2]

\* Every generator that has run
SlotResults ==
    (IF "scheduler" \in slotRuns THEN {availableTimeSlots} ELSE {})
        \cup (IF "modal" \in slotRuns THEN {timeSlots} ELSE {})

\* C1: for a selected date strictly after today's date and any current
\* time, each generator returns exactly the 16 slots 09:00..16:30 in
\* ascending order.
C1_FutureDateFullDay ==
    date > today => \A slots \in SlotResults : slots = FullDay

C1_Witness ==
    /\ date > today
    /\ slotRuns = {"scheduler", "modal"}
    /\ nowHour = 12 /\ nowMinute = 45
    /\ Len(availableTimeSlots) = 16 /\ Len(timeSlots) = 16

\* C2: when the selected date is today, no returned slot has a time of
\* day strictly before the current time.
C2_NoSlotBeforeNow ==
    date = today =>
        \A slots \in SlotResults : \A i \in 1..Len(slots) :
            MinuteOfDay(slots[i]) >= nowHour * 60 + nowMinute

\* The half-hour slots from the next half-hour boundary after the current
\* time up to 16:30 (empty when the boundary is at or past 17:00).
NextBoundary ==
    IF nowMinute >= 30 THEN <<nowHour + 1, 0>> ELSE <<nowHour, 30>>

FromNextBoundary ==
    SelectSeq(FullDay, LAMBDA t : MinuteOfDay(t) >= MinuteOfDay(NextBoundary))

\* C3: when the selected date is today and the current time is inside the
\* working window, the first slot is the next half-hour boundary
\* ((hour+1):00 if minute >= 30, else hour:30) and every later half-hour
\* slot up to 16:30 follows with none skipped.
C3_StartsAtNextBoundary ==
    (date = today /\ nowHour >= 9 /\ nowHour < 17) =>
        \A slots \in SlotResults : slots = FromNextBoundary

\* C4: when the selected date is today and rounding the current time up
\* moves the start hour to or past 17:00 (any time from 16:30 on), the
\* generators return the empty sequence.
C4_EmptyAfterLastBoundary ==
    (date = today /\ nowHour * 60 + nowMinute >= 16 * 60 + 30) =>
        \A slots \in SlotResults : slots = <<>>

C4_Witness ==
    /\ date = today
    /\ nowHour = 16 /\ nowMinute = 45
    /\ slotRuns = {"scheduler", "modal"}
    /\ availableTimeSlots = <<>> /\ timeSlots = <<>>

\* C5: for a selected date strictly before today's date the generators
\* return the empty sequence.
C5_PastDateEmpty ==
    date < today => \A slots \in SlotResults : slots = <<>>

\* ------------------------------------------------- CalendarScreen claims
\* The entities of a snapshot that are not cancelled.
NonCancelled(list) == { list[i] : i \in { k \in 1..Len(list) : list[k].status # "cancelled" } }

LatestEntities == NonCancelled(eventsSnapshot.list) \cup NonCancelled(appointmentsSnapshot.list)

Ids(list) == { list[i] : i \in 1..Len(list) }

AgendaIds == { selectedDateEvents[i].id : i \in 1..Len(selectedDateEvents) }

\* C6: once both streams have delivered a snapshot, the marker map carries
\* exactly one dot for every non-cancelled entity of the latest events
\* snapshot and of the latest appointments snapshot, on that entity's date.
C6_MarkersMatchLatestSnapshots ==
    (eventsSnapshot.delivered /\ appointmentsSnapshot.delivered) =>
        \A d \in Days :
            /\ Ids(markedDates[d]) = { e.id : e \in { x \in LatestEntities : x.date = d } }
            /\ Len(markedDates[d]) = Cardinality({ x \in LatestEntities : x.date = d })

\* C7: the agenda is a function of the latest events snapshot, the latest
\* appointments snapshot and the selected date only, whichever stream
\* delivered first and however deliveries and day presses interleaved.
C7_AgendaFromLatestSnapshots ==
    selectedDateEvents =
        updateSelectedDateEvents(eventsSnapshot.list,
                                 activeAppointments(appointmentsSnapshot.list),
                                 selected)

C7_Witness ==
    /\ eventsSnapshot.delivered /\ appointmentsSnapshot.delivered
    /\ Len(eventsSnapshot.list) = 2
    /\ selected = 1 /\ today # 1
    /\ {"e2", "a1"} \subseteq AgendaIds

\* C8: the agenda lists all-day entries first, then timed entries by
\* ascending time of day, and of two entries with the same time the Event
\* comes before the Appointment.
C8_AgendaOrder ==
    \A i, j \in 1..Len(selectedDateEvents) :
        i < j =>
            LET a == selectedDateEvents[i]
                b == selectedDateEvents[j]
            IN /\ b.isAllDay => a.isAllDay
               /\ (~a.isAllDay /\ ~b.isAllDay) =>
                      /\ MinuteOfDay(a.time) <= MinuteOfDay(b.time)
                      /\ (a.time = b.time /\ a.isAppointment) => b.isAppointment

\* An all-day Event delivered after a timed one, and a 09:00 Appointment:
\* the agenda shows the all-day Event first and the Event before the
\* Appointment of the same time.
C8_Witness ==
    /\ Len(eventsSnapshot.list) = 2
    /\ eventsSnapshot.list[1].id = "e2" /\ eventsSnapshot.list[2].id = "e1"
    /\ Len(selectedDateEvents) = 3
    /\ selectedDateEvents[1].id = "e1"
    /\ selectedDateEvents[2].id = "e2"
    /\ selectedDateEvents[3].id = "a1"

\* C9: no entry of the agenda comes from a cancelled Appointment or Event.
C9_NoCancelledInAgenda ==
    \A i \in 1..Len(selectedDateEvents) : selectedDateEvents[i].status # "cancelled"

\* appliesOn(rule, anchorDate, queryDate) of the Recurrence Expander, for the
\* day-count patterns: not before the anchor, not after the end date (0: no
\* end date), and a whole number of periods after the anchor.
appliesOn(entity, queryDate) ==
    /\ queryDate >= entity.date
    /\ entity.recurrenceEnd = 0 \/ queryDate <= entity.recurrenceEnd
    /\ (queryDate - entity.date) % (IF entity.recurrencePattern = "daily" THEN 1 ELSE 7) = 0

\* C10: a non-cancelled recurring entity is in the agenda and has a marker
\* on every queried date on which its recurrence applies, and on no date
\* before its anchor date or after its recurrence end date.
C10_RecurringOnEveryOccurrence ==
    \A e \in { x \in LatestEntities : x.isRecurring } :
        /\ e.id \in AgendaIds <=> appliesOn(e, selected)
        /\ (eventsSnapshot.delivered /\ appointmentsSnapshot.delivered) =>
               \A d \in Days : e.id \in Ids(markedDates[d]) <=> appliesOn(e, d)

\* ============================================================ the forms
\* Device offsets from UTC, in minutes: New York (winter), London, Kolkata.
TzOffsets == {-300, 0, 330}

\* new Date().toISOString().split('T')[0]: the UTC calendar day of now.
UtcToday == (today * (24 * 60) + Now.minute - tzOffset) \div (24 * 60)

\* date-fns isPast
isPast(d) == isBefore(d, Now)

\* A date picker's answer for the day the user taps: DatePickerFallback lists
\* one Date per day, stepping from minimumDate, so the answer keeps the time
\* of day of minimumDate.
PickerValue(day, minimumDate) == DateAt(day, minimumDate.minute)

\* The in-flight guard left out.
PreventDoubleSubmissionNever(f) == FALSE

\* `if (isSubmitting) return` at the head of both submit handlers.
PreventDoubleSubmission(f) == f.isSubmitting

\* The error test that lets every form through.
HasErrorsNever(newErrors) == FALSE

\* `Object.keys(newErrors).length > 0` in both submit handlers.
HasErrors(newErrors) == newErrors # {}

\* --------------------------------------------------- AppointmentsScreen
\* The appointment card shows Reschedule and Cancel: the upcoming tab lists
\* the appointments whose date is not past and whose status is not 'past',
\* and the buttons are left out for a cancelled one.
ShowsActions(id) ==
    /\ store[id] # NoDocument
    /\ ~isPast(NewDateFromString(store[id].date))
    /\ store[id].status # "past"
    /\ store[id].status # "cancelled"

\* "Schedule Appointment" / "Schedule Follow-up": handleScheduleAppointment.
handleScheduleAppointment ==
    /\ scheduler # SchedulerBlank
    /\ ~screen.schedulerVisible
    /\ screen' = [screen EXCEPT !.schedulerVisible = TRUE, !.openedBy = "schedule"]
    /\ UNCHANGED <<tzOffset, scheduler, modal, inFlight, store>>
    /\ UNCHANGED slotVars
    /\ UNCHANGED calendarVars
    /\ UNCHANGED sessionVars

\* The Reschedule button of an appointment card.
RescheduleButton(id) ==
    /\ scheduler # SchedulerBlank
    /\ ~screen.schedulerVisible
    /\ ShowsActions(id)
    /\ screen' = [selectedAppointment |-> id, schedulerVisible |-> TRUE,
                  openedBy |-> "reschedule"]
    /\ UNCHANGED <<tzOffset, scheduler, modal, inFlight, store>>
    /\ UNCHANGED slotVars
    /\ UNCHANGED calendarVars
    /\ UNCHANGED sessionVars

\* The scheduler's Cancel button (disabled while submitting): onClose.
onClose ==
    /\ screen.schedulerVisible
    /\ ~scheduler.isSubmitting
    /\ screen' = [screen EXCEPT !.schedulerVisible = FALSE]
    /\ UNCHANGED <<tzOffset, scheduler, modal, inFlight, store>>
    /\ UNCHANGED slotVars
    /\ UNCHANGED calendarVars
    /\ UNCHANGED sessionVars

\* handleCancelAppointment, confirmed with "Yes, Cancel".
handleCancelAppointment(id) ==
    /\ scheduler # SchedulerBlank
    /\ ~screen.schedulerVisible
    /\ ShowsActions(id)
    /\ Len(inFlight) < MaxInFlight
    /\ inFlight' = Append(inFlight, StatusWrite(id, "cancelled"))
    /\ UNCHANGED <<tzOffset, scheduler, modal, screen, store>>
    /\ UNCHANGED slotVars
    /\ UNCHANGED calendarVars
    /\ UNCHANGED sessionVars

\* CalendarScreen.handleMarkAsCompleted on an appointment of the agenda (the
\* calendar lists every appointment that is not cancelled).  The scheduler is
\* a Modal over the tabs: the agenda is out of reach while it is shown.
handleMarkAsCompleted(id) ==
    /\ scheduler # SchedulerBlank
    /\ ~screen.schedulerVisible
    /\ store[id] # NoDocument
    /\ store[id].status # "cancelled"
    /\ Len(inFlight) < MaxInFlight
    /\ inFlight' = Append(inFlight, StatusWrite(id, "past"))
    /\ UNCHANGED <<tzOffset, scheduler, modal, screen, store>>
    /\ UNCHANGED slotVars
    /\ UNCHANGED calendarVars
    /\ UNCHANGED sessionVars

\* ------------------------------------------------ AppointmentScheduler
\* The scheduler's state changes to g by a form control.  While a write is
\* awaited the "Saving" alert covers the form.
SchedulerEdit(g) ==
    /\ screen.schedulerVisible
    /\ ~scheduler.isSubmitting
    /\ scheduler' = g
    /\ UNCHANGED <<tzOffset, modal, screen, inFlight, store>>
    /\ UNCHANGED slotVars
    /\ UNCHANGED calendarVars
    /\ UNCHANGED sessionVars

\* handleCustomCalendarSelect: a tap on a day of the custom calendar, whose
\* minDate is the UTC day of now.
handleCustomCalendarSelect(day) ==
    /\ day >= UtcToday
    /\ SchedulerEdit(SchedulerDateEffect(
           [scheduler EXCEPT !.date = NewDateAtNoon(day), !.picked = day]))

\* The "Today" buttons of the custom calendar: setDate(new Date()).
TodayButton ==
    SchedulerEdit(SchedulerDateEffect([scheduler EXCEPT !.date = Now, !.picked = today]))

\* handleDateConfirm / handleNativeDateChange: the date pickers, with
\* minimumDate = new Date().
handleDateConfirm(day) ==
    /\ day >= today
    /\ SchedulerEdit(SchedulerDateEffect(
           [scheduler EXCEPT !.date = PickerValue(day, Now), !.picked = day]))

\* The buttons that switch between the date picker and the manual field.
setShowManualDateInput(show) ==
    /\ scheduler.showManualDateInput # show
    /\ SchedulerEdit([scheduler EXCEPT !.showManualDateInput = show])

\* handleManualDateInput: the date state follows the text only when the text
\* parses.
handleManualDateInput(text) ==
    /\ scheduler.showManualDateInput
    /\ SchedulerEdit(
           IF isValid(parse(text))
           THEN SchedulerDateEffect([scheduler EXCEPT !.manualDateInput = text,
                                                      !.date = parse(text),
                                                      !.picked = text.day])
           ELSE [scheduler EXCEPT !.manualDateInput = text])

\* The "Recurring Appointment" checkbox.
setIsRecurring ==
    SchedulerEdit([scheduler EXCEPT !.isRecurring = ~scheduler.isRecurring])

\* A recurrence pattern button.
setRecurrencePattern(pattern) ==
    /\ scheduler.isRecurring
    /\ scheduler.recurrencePattern # pattern
    /\ SchedulerEdit([scheduler EXCEPT !.recurrencePattern = pattern])

\* handleRecurrenceEndConfirm: the end picker, with minimumDate = date.
handleRecurrenceEndConfirm(day) ==
    /\ scheduler.isRecurring
    /\ day >= scheduler.date.day
    /\ SchedulerEdit([scheduler EXCEPT !.recurrenceEnd = PickerValue(day, scheduler.date)])

\* handleSchedule up to its await: the in-flight guard, validation, and the
\* Gateway call.  With no user logged in it throws before the call, and its
\* catch and finally blocks run in the same step.
handleSchedule ==
    /\ screen.schedulerVisible
    /\ IF PreventDoubleSubmission(scheduler)
       THEN UNCHANGED <<scheduler, inFlight>>
       ELSE IF HasErrors(validateInputs(scheduler))
       THEN /\ scheduler' = [scheduler EXCEPT !.errors = validateInputs(scheduler)]
            /\ UNCHANGED inFlight
       ELSE IF ~currentUser
       THEN /\ scheduler' = [scheduler EXCEPT !.errors = {}, !.isSubmitting = FALSE]
            /\ UNCHANGED inFlight
       ELSE /\ Len(inFlight) < MaxInFlight
            /\ scheduler' = [scheduler EXCEPT !.errors = {}, !.isSubmitting = TRUE]
            /\ inFlight' = Append(inFlight, ScheduleWrite(scheduler, screen.selectedAppointment))
    /\ UNCHANGED <<tzOffset, modal, screen, store>>
    /\ UNCHANGED slotVars
    /\ UNCHANGED calendarVars
    /\ UNCHANGED sessionVars

\* -------------------------------------------------------- AddEventModal
\* CalendarScreen.showAddEventModal; the [initialDate, visible] effect runs.
showAddEventModal ==
    /\ modal # ModalBlank
    /\ ~modal.visible
    /\ modal' = ModalInitialDateEffect([modal EXCEPT !.visible = TRUE], selected)
    /\ UNCHANGED <<tzOffset, scheduler, screen, inFlight, store>>
    /\ UNCHANGED slotVars
    /\ UNCHANGED calendarVars
    /\ UNCHANGED sessionVars

\* The user selects another day on the calendar behind the closed modal: the
\* initialDate prop changes and the [initialDate, visible] effect runs.
InitialDateChanged(day) ==
    /\ modal # ModalBlank
    /\ ~modal.visible
    /\ day # selected
    /\ selected' = day
    /\ modal' = ModalInitialDateEffect(modal, day)
    /\ UNCHANGED <<events, appointments, markedDates, selectedDateEvents,
                   subscription, timers, eventsSnapshot, appointmentsSnapshot>>
    /\ UNCHANGED <<tzOffset, scheduler, screen, inFlight, store>>
    /\ UNCHANGED slotVars
    /\ UNCHANGED sessionVars

\* The modal's state changes to g by a form control.  While a write is
\* awaited the "Saving" alert covers the form.
ModalEdit(g) ==
    /\ modal.visible
    /\ ~modal.isSubmitting
    /\ modal' = g
    /\ UNCHANGED <<tzOffset, scheduler, screen, inFlight, store>>
    /\ UNCHANGED slotVars
    /\ UNCHANGED calendarVars
    /\ UNCHANGED sessionVars

\* handleConfirmDate: the date picker, with minimumDate = new Date().
handleConfirmDate(day) ==
    /\ day >= today
    /\ ModalEdit(ModalDateEffect([modal EXCEPT !.date = PickerValue(day, Now), !.picked = day]))

\* The "Recurring Event" switch.
modalSetIsRecurring ==
    ModalEdit([modal EXCEPT !.isRecurring = ~modal.isRecurring])

\* A recurrence pattern button of the modal.
modalSetRecurrencePattern(pattern) ==
    /\ modal.isRecurring
    /\ modal.recurrencePattern # pattern
    /\ ModalEdit([modal EXCEPT !.recurrencePattern = pattern])

\* The modal's handleRecurrenceEndConfirm, with minimumDate = date.
modalHandleRecurrenceEndConfirm(day) ==
    /\ modal.isRecurring
    /\ day >= modal.date.day
    /\ ModalEdit([modal EXCEPT !.recurrenceEnd = PickerValue(day, modal.date)])

\* handleAddEvent up to its await.
handleAddEvent ==
    /\ modal.visible
    /\ IF PreventDoubleSubmission(modal)
       THEN UNCHANGED <<modal, inFlight>>
       ELSE IF HasErrors(validateForm(modal))
       THEN /\ modal' = [modal EXCEPT !.errors = validateForm(modal)]
            /\ UNCHANGED inFlight
       ELSE IF ~currentUser
       THEN /\ modal' = [modal EXCEPT !.errors = {}, !.isSubmitting = FALSE]
            /\ UNCHANGED inFlight
       ELSE /\ Len(inFlight) < MaxInFlight
            /\ modal' = [modal EXCEPT !.errors = {}, !.isSubmitting = TRUE]
            /\ inFlight' = Append(inFlight, EventWrite(modal))
    /\ UNCHANGED <<tzOffset, scheduler, screen, store>>
    /\ UNCHANGED slotVars
    /\ UNCHANGED calendarVars
    /\ UNCHANGED sessionVars

\* ------------------------------------------------------- write settles
RemoveAt(seq, i) == SubSeq(seq, 1, i - 1) \o SubSeq(seq, i + 1, Len(seq))

\* Settle with the handlers' finally blocks left out.
SettleWithoutFinally(i, ok) ==
    LET w == inFlight[i]
        accepted == ok /\ (w.op = "addAppointment" => FreeIds # {})
    IN  /\ inFlight' = RemoveAt(inFlight, i)
        /\ store' = IF accepted THEN GatewayApply(w) ELSE store
        /\ scheduler' = IF w.dialog = "scheduler" /\ accepted
                        THEN [scheduler EXCEPT !.isSubmitting = FALSE]
                        ELSE scheduler
        /\ screen' = IF w.dialog = "scheduler" /\ accepted
                     THEN [screen EXCEPT !.schedulerVisible = FALSE]
                     ELSE screen
        /\ modal' = IF w.dialog # "modal" THEN modal
                    ELSE IF accepted
                    THEN ModalInitialDateEffect(
                             [resetForm(modal) EXCEPT !.visible = FALSE, !.isSubmitting = FALSE],
                             selected)
                    ELSE modal
        /\ feed' = IF w.dialog = "scheduler" /\ accepted
                   THEN [feed EXCEPT !.refreshTimer = TRUE]
                   ELSE feed
        /\ UNCHANGED <<tzOffset, currentUser, mounted, loading, error, retryListeners>>
        /\ UNCHANGED slotVars
        /\ UNCHANGED calendarVars

\* The Gateway settles the i-th awaited write, accepting it (ok) or
\* rejecting it, and the awaiting handler resumes: handleSchedule calls
\* onAppointmentAdded (AppointmentsScreen arms its refresh timer and hides
\* the scheduler) on success;
\* handleAddEvent calls resetForm and onAddEvent (CalendarScreen hides the
\* modal, the [initialDate, visible] effect runs) on success; both clear
\* isSubmitting in their finally block.
Settle(i, ok) ==
    LET w == inFlight[i]
        accepted == ok /\ (w.op = "addAppointment" => FreeIds # {})
    IN  /\ inFlight' = RemoveAt(inFlight, i)
        /\ store' = IF accepted THEN GatewayApply(w) ELSE store
        /\ scheduler' = IF w.dialog = "scheduler"
                        THEN [scheduler EXCEPT !.isSubmitting = FALSE]
                        ELSE scheduler
        /\ screen' = IF w.dialog = "scheduler" /\ accepted
                     THEN [screen EXCEPT !.schedulerVisible = FALSE]
                     ELSE screen
        /\ modal' = IF w.dialog # "modal" THEN modal
                    ELSE IF accepted
                    THEN ModalInitialDateEffect(
                             [resetForm(modal) EXCEPT !.visible = FALSE, !.isSubmitting = FALSE],
                             selected)
                    ELSE [modal EXCEPT !.isSubmitting = FALSE]
        /\ feed' = IF w.dialog = "scheduler" /\ accepted
                   THEN [feed EXCEPT !.refreshTimer = TRUE]
                   ELSE feed
        /\ UNCHANGED <<tzOffset, currentUser, mounted, loading, error, retryListeners>>
        /\ UNCHANGED slotVars
        /\ UNCHANGED calendarVars

\* ------------------------------------------------------- specifications
\* The appointment the Gateway holds at the start: upcoming, on some day,
\* with Dr Ann, created a day before now.
InitialStore(day) ==
    [id \in AppointmentIds |->
        IF id = "a1"
        THEN [status |-> "upcoming", date |-> day, doctorName |-> "Dr Ann",
              specialty |-> "Dr", location |-> "Dr",
              createdAt |-> ToISOString(Now) - 24 * 60]
        ELSE NoDocument]

\* The required texts typed into the mounted scheduler.
SchedulerTyped(initialDate) ==
    [SchedulerAtMount(initialDate) EXCEPT !.doctorName = "Dr", !.specialty = "Dr",
                                          !.location = "Dr"]

\* The required texts typed into the mounted modal.
ModalTyped(initialDate) ==
    [ModalAtMount(initialDate) EXCEPT !.title = "Dr", !.location = "Dr"]

\* Form contents the user can have entered in the scheduler by the time of
\* a press on Schedule (the slot is null only while today has no slot left).
SchedulerInputs ==
    { [doctorName |-> dn, specialty |-> sp, location |-> lo,
       date |-> d, time |-> t, errors |-> {},
       manualDateInput |-> NoText, showManualDateInput |-> FALSE,
       showManualTimeInput |-> m, duration |-> du,
       isRecurring |-> r, recurrencePattern |-> p, recurrenceEnd |-> e,
       selectedTimeSlot |-> IF sl THEN t ELSE NoTime,
       isSubmitting |-> FALSE, picked |-> d.day] :
         dn \in Texts, sp \in {"", "Dr"}, lo \in {"", "Dr"},
         d \in {DateAt(x, 12 * 60) : x \in Days} \cup {Now},
         t \in {<<9, 0>>, <<16, 30>>},
         m \in BOOLEAN, du \in {10, 15, 30, 240, 300},
         r \in BOOLEAN, p \in {NoPattern, "weekly"},
         e \in {NoDate} \cup {DateAt(x, 12 * 60) : x \in Days},
         sl \in BOOLEAN }

\* Form contents the user can have entered in the modal.
ModalInputs ==
    { [title |-> ti, location |-> lo, date |-> d, time |-> t,
       isAllDay |-> a, isRecurring |-> r, recurrencePattern |-> p,
       recurrenceEnd |-> e, errors |-> {}, isSubmitting |-> FALSE,
       selectedTimeSlot |-> t, visible |-> TRUE, picked |-> d.day] :
         ti \in Texts, lo \in {"", "Dr"},
         d \in {DateAt(x, 12 * 60) : x \in Days} \cup {Now},
         t \in {<<9, 0>>, <<16, 30>>},
         a \in BOOLEAN, r \in BOOLEAN, p \in {NoPattern, "weekly"},
         e \in {NoDate} \cup {DateAt(x, 12 * 60) : x \in Days} }

\* SpecValidate: one of the two dialogs is open with some form contents; the
\* user presses its submit button and the Gateway settles the writes.
ValidateInit ==
    /\ today = 2
    /\ nowHour \in {10, 17}
    /\ nowMinute = 15
    /\ date = today
    /\ availableTimeSlots = <<>>
    /\ timeSlots = <<>>
    /\ slotRuns = {}
    /\ CalendarIdle
    /\ SessionIdle
    /\ tzOffset = 0
    /\ inFlight = <<>>
    /\ store = EmptyStore
    /\ \/ /\ scheduler \in SchedulerInputs
          /\ scheduler.selectedTimeSlot = NoTime =>
                 /\ isToday(scheduler.date.day, today)
                 /\ generateTimeSlots(today, today, nowHour, nowMinute) = <<>>
          /\ screen = [selectedAppointment |-> NoId, schedulerVisible |-> TRUE,
                       openedBy |-> "schedule"]
          /\ modal = ModalBlank
       \/ /\ modal \in ModalInputs
          /\ scheduler = SchedulerBlank
          /\ screen = ScreenBlank

ValidateNext ==
    \/ handleSchedule
    \/ handleAddEvent
    \/ \E i \in 1..Len(inFlight), ok \in BOOLEAN : Settle(i, ok)

SpecValidate == ValidateInit /\ [][ValidateNext]_vars

\* One dialog is mounted on a device in some time zone, with the required
\* texts typed: the scheduler in AppointmentsScreen (initialDate is today) or
\* the modal in CalendarScreen (initialDate is the selected day).
DialogInit ==
    /\ today \in Days
    /\ nowHour = 10
    /\ nowMinute = 15
    /\ date = today
    /\ availableTimeSlots = <<>>
    /\ timeSlots = <<>>
    /\ slotRuns = {}
    /\ events = <<>>
    /\ appointments = <<>>
    /\ markedDates = [d \in Days |-> NoMarking]
    /\ selectedDateEvents = <<>>
    /\ subscription = NoSubscription
    /\ timers = {}
    /\ eventsSnapshot = NoSnapshot
    /\ appointmentsSnapshot = NoSnapshot
    /\ SessionIdle
    /\ tzOffset \in TzOffsets
    /\ inFlight = <<>>
    /\ store = EmptyStore
    /\ screen = ScreenBlank
    /\ \/ /\ scheduler = SchedulerTyped(today)
          /\ modal = ModalBlank
          /\ selected = 1
       \/ /\ selected = today
          /\ modal = ModalTyped(selected)
          /\ scheduler = SchedulerBlank

\* Opening, closing and submitting the dialogs, and the Gateway's answers.
DialogNext ==
    \/ handleScheduleAppointment
    \/ onClose
    \/ handleSchedule
    \/ showAddEventModal
    \/ \E day \in Days : InitialDateChanged(day)
    \/ handleAddEvent
    \/ \E i \in 1..Len(inFlight), ok \in BOOLEAN : Settle(i, ok)

\* SpecDates: every way a date reaches the forms, then submission.
DatesNext ==
    \/ DialogNext
    \/ \E day \in Days : handleCustomCalendarSelect(day)
    \/ TodayButton
    \/ \E day \in Days : handleDateConfirm(day)
    \/ \E show \in BOOLEAN : setShowManualDateInput(show)
    \/ \E text \in ManualTexts : handleManualDateInput(text)
    \/ \E day \in Days : handleConfirmDate(day)

SpecDates == DialogInit /\ [][DatesNext]_vars

\* SpecRecurrence: the recurrence fields and the date are edited through the
\* pickers and the calendar, then submission.
RecurrenceNext ==
    \/ DialogNext
    \/ \E day \in Days : handleCustomCalendarSelect(day)
    \/ setIsRecurring
    \/ setRecurrencePattern("weekly")
    \/ \E day \in Days : handleRecurrenceEndConfirm(day)
    \/ \E day \in Days : handleConfirmDate(day)
    \/ modalSetIsRecurring
    \/ modalSetRecurrencePattern("weekly")
    \/ \E day \in Days : modalHandleRecurrenceEndConfirm(day)

SpecRecurrence == DialogInit /\ [][RecurrenceNext]_vars

\* SpecLifecycle: AppointmentsScreen with one appointment at the Gateway;
\* the user schedules, reschedules, cancels and marks completed.
LifecycleInit ==
    /\ today \in Days
    /\ nowHour = 10
    /\ nowMinute = 15
    /\ date = today
    /\ availableTimeSlots = <<>>
    /\ timeSlots = <<>>
    /\ slotRuns = {}
    /\ CalendarIdle
    /\ SessionIdle
    /\ tzOffset \in TzOffsets
    /\ inFlight = <<>>
    /\ \E day \in Days : store = InitialStore(day)
    /\ screen = ScreenBlank
    /\ scheduler = SchedulerTyped(today)
    /\ modal = ModalBlank

LifecycleNext ==
    \/ handleScheduleAppointment
    \/ \E id \in AppointmentIds : RescheduleButton(id)
    \/ onClose
    \/ \E id \in AppointmentIds : handleCancelAppointment(id)
    \/ \E id \in AppointmentIds : handleMarkAsCompleted(id)
    \/ \E day \in Days : handleCustomCalendarSelect(day)
    \/ handleSchedule
    \/ \E i \in 1..Len(inFlight), ok \in BOOLEAN : Settle(i, ok)

SpecLifecycle == LifecycleInit /\ [][LifecycleNext]_vars

\* ------------------------------------------------------------ form claims
\* The writes a dialog is awaiting.
Awaited(dialog) == {i \in 1..Len(inFlight) : inFlight[i].dialog = dialog}

\* The state of the dialog that issued write w.
FormOf(w) == IF w.dialog = "scheduler" THEN scheduler ELSE modal

\* C11: the date string of every write a dialog issues is the calendar day
\* the user selected last in that dialog (by calendar tap, initialDate prop,
\* manual text or picker), whatever the device's offset from UTC.
C11_PersistedDateIsSelectedDate ==
    \A i \in Awaited("scheduler") \cup Awaited("modal") :
        inFlight[i].data.date = FormOf(inFlight[i]).picked

\* A scheduler write on a device west of Greenwich, for a day the user chose
\* other than today.
C11_Witness ==
    \E i \in Awaited("scheduler") :
        /\ tzOffset < 0
        /\ scheduler.picked # today
        /\ inFlight[i].data.date = scheduler.picked

\* The text in the manual date field is typed and is not a date.
InvalidManualDate(f) ==
    /\ f.showManualDateInput
    /\ f.manualDateInput # NoText
    /\ ~isValid(parse(f.manualDateInput))

\* C12: while the manual date field holds text that is not a valid date, a
\* submission issues no write.
C12_InvalidDateTextPersistsNothing ==
    InvalidManualDate(scheduler) => Awaited("scheduler") = {}

\* C13: from a state where the validator reports an error for the dialog's
\* form, no step issues a write of that dialog or sets its isSubmitting flag.
C13_ErrorsBlockSubmission ==
    [][/\ (scheduler # SchedulerBlank /\ validateInputs(scheduler) # {} /\ ~scheduler.isSubmitting)
           => (Awaited("scheduler")' = {} /\ ~scheduler'.isSubmitting)
       /\ (modal # ModalBlank /\ validateForm(modal) # {} /\ ~modal.isSubmitting)
           => (Awaited("modal")' = {} /\ ~modal'.isSubmitting)]_vars

\* A press on Schedule was rejected: the errors are shown, nothing is awaited.
C13_Witness ==
    /\ scheduler.errors # {}
    /\ scheduler.errors = validateInputs(scheduler)
    /\ ~scheduler.isSubmitting
    /\ inFlight = <<>>

\* The fields a set of errors names.
Fields(newErrors) == {e.field : e \in newErrors}

\* The fields of the appointment form f that break a rule of the validator's
\* contract: required texts, date not before today, time not before now when
\* the date is today, duration within 15..240, recurrence end not before the
\* date.
AppointmentViolations(f) ==
    (IF trim(f.doctorName) = "" THEN {"doctorName"} ELSE {})
    \cup (IF trim(f.specialty) = "" THEN {"specialty"} ELSE {})
    \cup (IF trim(f.location) = "" THEN {"location"} ELSE {})
    \cup (IF f.date.day < today THEN {"date"} ELSE {})
    \cup (IF f.date.day = today /\ isBefore(CombineDateTime(f.date, f.time), Now)
          THEN {"time"} ELSE {})
    \cup (IF f.duration < 15 \/ f.duration > 240 THEN {"duration"} ELSE {})
    \cup (IF f.isRecurring /\ f.recurrencePattern # NoPattern /\ f.recurrenceEnd # NoDate
             /\ f.recurrenceEnd.day < f.date.day
          THEN {"recurrence"} ELSE {})

\* The same for the event form f; the time rules bind events that are not
\* all-day, and events have no duration.
EventViolations(f) ==
    (IF trim(f.title) = "" THEN {"title"} ELSE {})
    \cup (IF trim(f.location) = "" THEN {"location"} ELSE {})
    \cup (IF f.date.day < today THEN {"date"} ELSE {})
    \cup (IF ~f.isAllDay /\ f.date.day = today /\ isBefore(CombineDateTime(f.date, f.time), Now)
          THEN {"time"} ELSE {})
    \cup (IF f.isRecurring /\ f.recurrencePattern # NoPattern /\ f.recurrenceEnd # NoDate
             /\ f.recurrenceEnd.day < f.date.day
          THEN {"recurrence"} ELSE {})

\* C14: the validators report every violated field at once: each field of the
\* open form that breaks a rule has an entry in the returned errors.
C14_EveryViolationReported ==
    /\ scheduler # SchedulerBlank =>
           AppointmentViolations(scheduler) \subseteq Fields(validateInputs(scheduler))
    /\ modal # ModalBlank =>
           EventViolations(modal) \subseteq Fields(validateForm(modal))

\* The appointment form f breaks no rule except, possibly, one on its date:
\* a time slot is chosen, a recurring appointment has its pattern, and no
\* other field is in violation.
OtherAppointmentFieldsValid(f) ==
    /\ AppointmentViolations(f) \subseteq {"date"}
    /\ f.time # NoTime
    /\ f.selectedTimeSlot # NoTime \/ f.showManualTimeInput
    /\ f.isRecurring => f.recurrencePattern # NoPattern

\* The same for the event form f.
OtherEventFieldsValid(f) ==
    /\ EventViolations(f) \subseteq {"date"}
    /\ f.isAllDay \/ f.time # NoTime
    /\ f.isRecurring => f.recurrencePattern # NoPattern

C16_PastTimeTodayRejected ==
    /\ (scheduler # SchedulerBlank /\ scheduler.date.day = today
            /\ isBefore(CombineDateTime(scheduler.date, scheduler.time), Now))
           => "time" \in Fields(validateInputs(scheduler))
    /\ (modal # ModalBlank /\ ~modal.isAllDay /\ modal.date.day = today
            /\ isBefore(CombineDateTime(modal.date, modal.time), Now))
           => "time" \in Fields(validateForm(modal))

\* C17: validateInputs reports a duration error exactly when the duration is
\* outside 15..240, and the duration of every appointment write is in 15..240.
C17_DurationWithinBounds ==
    /\ scheduler # SchedulerBlank =>
           ("duration" \in Fields(validateInputs(scheduler))
                <=> (scheduler.duration < 15 \/ scheduler.duration > 240))
    /\ \A i \in Awaited("scheduler") : inFlight[i].data.duration \in 15..240

\* An appointment of 240 minutes is being written.
C17_Witness ==
    \E i \in Awaited("scheduler") : inFlight[i].data.duration = 240

\* C18: every appointment or event write that carries a recurrence end date
\* has it on or after its own date, and a form whose recurrence end date is
\* the day of its date gets no recurrence error.
C18_RecurrenceEndNotBeforeDate ==
    /\ \A i \in Awaited("scheduler") \cup Awaited("modal") :
           inFlight[i].data.recurrenceEnd # NoDateString
               => inFlight[i].data.recurrenceEnd >= inFlight[i].data.date
    /\ (scheduler # SchedulerBlank /\ scheduler.isRecurring
            /\ scheduler.recurrencePattern # NoPattern
            /\ scheduler.recurrenceEnd # NoDate
            /\ scheduler.recurrenceEnd.day = scheduler.date.day)
           => "recurrence" \notin Fields(validateInputs(scheduler))

C20_NoReturnToUpcoming ==
    [][\A id \in AppointmentIds :
           store[id].status \in {"cancelled", "past"} => store'[id].status # "upcoming"]_vars

\* ------------------------------------------- slot generators, continued
\* C25: whatever the selected date and the current time, the slots a
\* generator returns are strictly ascending (so none is repeated), are at
\* most 16, and each is on a half hour between 09:00 and 16:30.
C25_SlotsAscendingInWindow ==
    \A slots \in SlotResults :
        /\ Len(slots) <= 16
        /\ \A i \in 1..Len(slots) :
               /\ slots[i][1] \in 9..16
               /\ slots[i][2] \in {0, 30}
        /\ \A i, j \in 1..Len(slots) :
               i < j => MinuteOfDay(slots[i]) < MinuteOfDay(slots[j])

\* Both generators have run for today at 11:40 and returned the eight
\* slots from 13:00 on.
C25_Witness ==
    /\ date = today
    /\ nowHour = 11 /\ nowMinute = 40
    /\ slotRuns = {"scheduler", "modal"}
    /\ Len(availableTimeSlots) = 8 /\ availableTimeSlots[1] = <<13, 0>>
    /\ Len(timeSlots) = 8 /\ timeSlots[8] = <<16, 30>>

\* C30: for every selected date and current time the scheduler's generator
\* and the modal's generator return the same slot sequence.
C30_GeneratorsAgree ==
    slotRuns = {"scheduler", "modal"} => availableTimeSlots = timeSlots

\* Both generators have run for today at 10:45, where the skip conditions
\* are evaluated with hour = startHour = 11, and returned the same slots.
C30_Witness ==
    /\ date = today
    /\ nowHour = 10 /\ nowMinute = 45
    /\ slotRuns = {"scheduler", "modal"}
    /\ availableTimeSlots = timeSlots
    /\ Len(timeSlots) = 10

\* ------------------------------------------- CalendarScreen, continued
\* C22: every dot of the marker map is the dot of an entity that the latest
\* snapshot of its stream holds and that is not cancelled there, on that
\* entity's date.
C22_NoStaleMarker ==
    \A d \in Days : \A k \in 1..Len(markedDates[d]) :
        \E x \in LatestEntities : x.id = markedDates[d][k] /\ x.date = d

\* ==================================== CalendarScreen: session and writes
\* Most listeners CalendarScreen holds without an unsubscribe function.
MaxRetryListeners == 2

\* A listenToEvents listener whose callback closed over `appointments`.
RetryListener(appointmentsList) == [appointments |-> appointmentsList]

\* The failing effect that also clears the agenda and the markers.
SubscribeFailsBlanking(stage) ==
    /\ "calendar" \in mounted
    /\ ~currentUser
    /\ ~subscription.active
    /\ stage = "appointments" => Len(retryListeners) < MaxRetryListeners
    /\ currentUser' = TRUE
    /\ loading' = FALSE
    /\ error' = TRUE
    /\ retryListeners' = IF stage = "appointments"
                         THEN Append(retryListeners, RetryListener(appointments))
                         ELSE retryListeners
    /\ selectedDateEvents' = <<>>
    /\ markedDates' = [d \in Days |-> NoMarking]
    /\ UNCHANGED <<selected, events, appointments, subscription, timers,
                   eventsSnapshot, appointmentsSnapshot>>
    /\ UNCHANGED <<mounted, feed>>
    /\ UNCHANGED slotVars
    /\ UNCHANGED formVars

\* The [currentUser] effect when a user becomes known and a listener call
\* throws: listenToEvents (stage "events") or, after listenToEvents has
\* returned, listenToAppointments (stage "appointments"; the events listener
\* stays open and its unsubscribe function is lost).  The catch block calls
\* setError and setLoading(false); no cleanup is returned.
SubscribeFails(stage) ==
    /\ "calendar" \in mounted
    /\ ~currentUser
    /\ ~subscription.active
    /\ stage = "appointments" => Len(retryListeners) < MaxRetryListeners
    /\ currentUser' = TRUE
    /\ loading' = FALSE
    /\ error' = TRUE
    /\ retryListeners' = IF stage = "appointments"
                         THEN Append(retryListeners, RetryListener(appointments))
                         ELSE retryListeners
    /\ UNCHANGED <<selected, events, appointments, markedDates, selectedDateEvents,
                   subscription, timers, eventsSnapshot, appointmentsSnapshot>>
    /\ UNCHANGED <<mounted, feed>>
    /\ UNCHANGED slotVars
    /\ UNCHANGED formVars

\* The user logs out: the cleanup of the [currentUser] effect unsubscribes
\* both listeners (when the effect had returned one) and the effect's next
\* run returns at `if (!currentUser)`.
Logout ==
    /\ mounted # {}
    /\ currentUser
    /\ currentUser' = FALSE
    /\ subscription' = NoSubscription
    /\ feed' = [feed EXCEPT !.subscribed = FALSE]
    /\ UNCHANGED <<selected, events, appointments, markedDates, selectedDateEvents,
                   timers, eventsSnapshot, appointmentsSnapshot>>
    /\ UNCHANGED <<mounted, loading, error, retryListeners>>
    /\ UNCHANGED slotVars
    /\ UNCHANGED formVars

\* The "Try Again" button of the error branch: setLoading(true) and a new
\* listenToEvents listener whose unsubscribe function is dropped.
TryAgain ==
    /\ "calendar" \in mounted
    /\ ~loading
    /\ error
    /\ currentUser
    /\ Len(retryListeners) < MaxRetryListeners
    /\ loading' = TRUE
    /\ retryListeners' = Append(retryListeners, RetryListener(appointments))
    /\ UNCHANGED calendarVars
    /\ UNCHANGED <<currentUser, mounted, error, feed>>
    /\ UNCHANGED slotVars
    /\ UNCHANGED formVars

\* The callback of the k-th such listener: setEvents(eventsList),
\* updateMarkedDates(eventsList, appointments) with the appointments it
\* closed over, setLoading(false); then the re-aggregation effect.
RetryCallback(k, eventsList) ==
    /\ "calendar" \in mounted
    /\ k \in 1..Len(retryListeners)
    /\ events' = eventsList
    /\ markedDates' = updateMarkedDates(eventsList, retryListeners[k].appointments)
    /\ selectedDateEvents' = updateSelectedDateEvents(eventsList, appointments, selected)
    /\ eventsSnapshot' = [delivered |-> TRUE, list |-> eventsList]
    /\ loading' = FALSE
    /\ UNCHANGED <<selected, appointments, subscription, timers, appointmentsSnapshot>>
    /\ UNCHANGED <<currentUser, mounted, error, retryListeners, feed>>
    /\ UNCHANGED slotVars
    /\ UNCHANGED formVars

\* The write of handleDeleteEvent: deleteEvent(uid, eventId).
DeleteWrite(eventId) ==
    [dialog |-> "calendar", op |-> "deleteEvent", id |-> eventId, data |-> [id |-> eventId]]

\* The agenda shows the card of event eventId (the cards are rendered when
\* the screen is neither loading nor in error; the delete button of an
\* appointment's card only shows an alert).
ShowsEventCard(eventId) ==
    /\ ~loading
    /\ ~error
    /\ \E i \in 1..Len(selectedDateEvents) :
           selectedDateEvents[i].id = eventId /\ ~selectedDateEvents[i].isAppointment

\* handleDeleteEvent up to its await.
handleDeleteEvent(eventId) ==
    /\ "calendar" \in mounted
    /\ currentUser
    /\ ShowsEventCard(eventId)
    /\ Len(inFlight) < MaxInFlight
    /\ inFlight' = Append(inFlight, DeleteWrite(eventId))
    /\ UNCHANGED <<tzOffset, scheduler, modal, screen, store>>
    /\ UNCHANGED calendarVars
    /\ UNCHANGED slotVars
    /\ UNCHANGED sessionVars

\* setEvents(prev => prev.filter(event => event.id !== eventId))
EventsAfterDelete(eventsList, eventId) ==
    SelectSeq(eventsList, LAMBDA event : event.id # eventId)

\* The Gateway settles the i-th awaited deleteEvent and handleDeleteEvent
\* resumes: on success it filters the event out of the events state, and
\* the re-aggregation effect recomputes the agenda.
DeleteSettles(i, ok) ==
    /\ "calendar" \in mounted
    /\ i \in 1..Len(inFlight)
    /\ inFlight[i].op = "deleteEvent"
    /\ inFlight' = RemoveAt(inFlight, i)
    /\ events' = IF ok THEN EventsAfterDelete(events, inFlight[i].id) ELSE events
    /\ selectedDateEvents' =
           IF ok
           THEN updateSelectedDateEvents(EventsAfterDelete(events, inFlight[i].id),
                                         appointments, selected)
           ELSE selectedDateEvents
    /\ UNCHANGED <<selected, appointments, markedDates, subscription, timers,
                   eventsSnapshot, appointmentsSnapshot>>
    /\ UNCHANGED <<tzOffset, scheduler, modal, screen, store>>
    /\ UNCHANGED slotVars
    /\ UNCHANGED sessionVars

\* CalendarScreen unmounts: the cleanup of the [currentUser] effect
\* unsubscribes its two listeners; nothing else is released.
CalendarUnmount ==
    /\ "calendar" \in mounted
    /\ mounted' = mounted \ {"calendar"}
    /\ subscription' = NoSubscription
    /\ UNCHANGED <<selected, events, appointments, markedDates, selectedDateEvents,
                   timers, eventsSnapshot, appointmentsSnapshot>>
    /\ UNCHANGED <<currentUser, loading, error, retryListeners, feed>>
    /\ UNCHANGED slotVars
    /\ UNCHANGED formVars

\* Longest snapshot delivered in SpecSession.
MaxSessionSnapshot == 1

SessionSnapshots(pool) == {q \in Snapshots(pool) : Len(q) <= MaxSessionSnapshot}

\* SpecSession: CalendarScreen on day 1 across logins, failing
\* subscriptions, retries and its unmount.
SessionInit ==
    /\ CalendarInit
    /\ today = 1

SessionNext ==
    \/ Subscribe
    \/ \E stage \in {"events", "appointments"} : SubscribeFails(stage)
    \/ Logout
    \/ TryAgain
    \/ \E k \in 1..Len(retryListeners), eventsList \in SessionSnapshots(EventPool) :
           RetryCallback(k, eventsList)
    \/ \E eventsList \in SessionSnapshots(EventPool) :
           "calendar" \in mounted /\ EventsCallback(eventsList)
    \/ \E appointmentsList \in SessionSnapshots(AppointmentPool) :
           "calendar" \in mounted /\ AppointmentsCallback(appointmentsList)
    \/ CalendarUnmount

SpecSession == SessionInit /\ [][SessionNext]_vars

\* SpecWrites: CalendarScreen on day 1, subscribed; the user deletes events
\* from the agenda while snapshots arrive.
WritesNext ==
    \/ Subscribe
    \/ \E eventsList \in Snapshots(EventPool) : EventsCallback(eventsList)
    \/ \E appointmentsList \in Snapshots(AppointmentPool) : AppointmentsCallback(appointmentsList)
    \/ \E eventId \in {e.id : e \in EventPool} : handleDeleteEvent(eventId)
    \/ \E i \in 1..Len(inFlight), ok \in BOOLEAN : DeleteSettles(i, ok)

SpecWrites == SessionInit /\ [][WritesNext]_vars

\* SpecSessionFair: SpecSession where a listener opened by "Try Again"
\* keeps delivering (the Gateway pushes a snapshot to every open listener).
SpecSessionFair ==
    /\ SpecSession
    /\ WF_vars(\E k \in 1..Len(retryListeners), eventsList \in SessionSnapshots(EventPool) :
                   RetryCallback(k, eventsList))

C23_EventsAreLatestSnapshot ==
    events = eventsSnapshot.list

\* C27: once the screen is in its error state and "Try Again" has been
\* pressed (the screen is loading), the delivery of an events snapshot
\* eventually brings the screen to the state, neither error nor loading, in
\* which the agenda is shown, unless the screen unmounts.
C27_RetryLeavesErrorState ==
    (error /\ loading) ~> ((~error /\ ~loading) \/ "calendar" \notin mounted)

\* ------------------------------------------------- reschedule and create
\* The i-th awaited write is settled and accepted in this step.
Applied(i) ==
    /\ inFlight' = RemoveAt(inFlight, i)
    /\ store' = GatewayApply(inFlight[i])

\* C24: a reschedule accepted by the Gateway leaves doctorName, specialty,
\* location, status and createdAt of the rescheduled appointment as they
\* were.
C24_RescheduleKeepsOtherFields ==
    [][\A i \in 1..Len(inFlight) :
           (/\ inFlight[i].op = "saveAppointment"
            /\ store[inFlight[i].id] # NoDocument
            /\ Applied(i))
           => LET old == store[inFlight[i].id]
                  new == store'[inFlight[i].id]
              IN  /\ new.doctorName = old.doctorName
                  /\ new.specialty = old.specialty
                  /\ new.location = old.location
                  /\ new.status = old.status
                  /\ new.createdAt = old.createdAt]_vars

\* C26: a write handleSchedule issues while the scheduler was opened with
\* "Schedule Appointment" is an addAppointment.
C26_ScheduleNewCreates ==
    [][(/\ screen.openedBy = "schedule"
        /\ Len(inFlight') = Len(inFlight) + 1
        /\ inFlight'[Len(inFlight')].dialog = "scheduler")
       => inFlight'[Len(inFlight')].op = "addAppointment"]_vars

\* ------------------------------------------- AppointmentsScreen: listeners
\* Most listeners AppointmentsScreen opens without keeping their unsubscribe.
MaxExtraListeners == 2

\* The [currentUser] effect of AppointmentsScreen runs with a user:
\* setLoading(true) and listenToAppointments, whose unsubscribe is the
\* effect's cleanup.
FeedSubscribe ==
    /\ "appointments" \in mounted
    /\ ~currentUser
    /\ ~feed.subscribed
    /\ currentUser' = TRUE
    /\ feed' = [feed EXCEPT !.subscribed = TRUE, !.loading = TRUE]
    /\ UNCHANGED <<mounted, loading, error, retryListeners>>
    /\ UNCHANGED slotVars
    /\ UNCHANGED calendarVars
    /\ UNCHANGED formVars

\* The same effect where listenToAppointments throws: its catch block.
FeedSubscribeFails ==
    /\ "appointments" \in mounted
    /\ ~currentUser
    /\ ~feed.subscribed
    /\ currentUser' = TRUE
    /\ feed' = [feed EXCEPT !.loading = FALSE, !.error = TRUE]
    /\ UNCHANGED <<mounted, loading, error, retryListeners>>
    /\ UNCHANGED slotVars
    /\ UNCHANGED calendarVars
    /\ UNCHANGED formVars

\* A listener of AppointmentsScreen delivers a snapshot: setLoading(false).
FeedCallback ==
    /\ "appointments" \in mounted
    /\ feed.subscribed \/ feed.extra > 0
    /\ feed.loading
    /\ feed' = [feed EXCEPT !.loading = FALSE]
    /\ UNCHANGED <<currentUser, mounted, loading, error, retryListeners>>
    /\ UNCHANGED slotVars
    /\ UNCHANGED calendarVars
    /\ UNCHANGED formVars

\* The setTimeout callback of handleAppointmentAdded, whose closure holds the
\* user of the render the scheduler submitted in: setLoading(true) and a
\* listener whose unsubscribe is dropped.  The timer is not cleared at
\* unmount.
RefreshFires ==
    /\ feed.refreshTimer
    /\ feed.extra < MaxExtraListeners
    /\ feed' = [feed EXCEPT !.refreshTimer = FALSE,
                            !.extra = feed.extra + 1,
                            !.loading = IF "appointments" \in mounted
                                        THEN TRUE ELSE feed.loading]
    /\ UNCHANGED <<currentUser, mounted, loading, error, retryListeners>>
    /\ UNCHANGED slotVars
    /\ UNCHANGED calendarVars
    /\ UNCHANGED formVars

\* "Try Again" of AppointmentsScreen, shown in its error branch.
FeedTryAgain ==
    /\ "appointments" \in mounted
    /\ ~feed.loading
    /\ feed.error
    /\ currentUser => feed.extra < MaxExtraListeners
    /\ feed' = IF currentUser
               THEN [feed EXCEPT !.loading = TRUE, !.error = FALSE,
                                 !.extra = feed.extra + 1]
               ELSE [feed EXCEPT !.loading = FALSE, !.error = TRUE]
    /\ UNCHANGED <<currentUser, mounted, loading, error, retryListeners>>
    /\ UNCHANGED slotVars
    /\ UNCHANGED calendarVars
    /\ UNCHANGED formVars

\* AppointmentsScreen unmounts: the effect's cleanup unsubscribes the
\* effect's listener.
ScreenUnmount ==
    /\ "appointments" \in mounted
    /\ mounted' = mounted \ {"appointments"}
    /\ feed' = [feed EXCEPT !.subscribed = FALSE]
    /\ UNCHANGED <<currentUser, loading, error, retryListeners>>
    /\ UNCHANGED slotVars
    /\ UNCHANGED calendarVars
    /\ UNCHANGED formVars

\* SpecFeed: AppointmentsScreen is mounted before the user is known; the
\* user logs in and out, schedules appointments and retries.
FeedInit ==
    /\ today = 2
    /\ nowHour = 10
    /\ nowMinute = 15
    /\ date = today
    /\ availableTimeSlots = <<>>
    /\ timeSlots = <<>>
    /\ slotRuns = {}
    /\ CalendarIdle
    /\ currentUser = FALSE
    /\ mounted = {"appointments"}
    /\ loading = TRUE
    /\ error = FALSE
    /\ retryListeners = <<>>
    /\ feed = FeedIdle
    /\ tzOffset = 0
    /\ inFlight = <<>>
    /\ store = EmptyStore
    /\ screen = ScreenBlank
    /\ scheduler = SchedulerTyped(today)
    /\ modal = ModalBlank

FeedNext ==
    \/ FeedSubscribe
    \/ FeedSubscribeFails
    \/ Logout
    \/ FeedCallback
    \/ RefreshFires
    \/ FeedTryAgain
    \/ ScreenUnmount
    \/ "appointments" \in mounted /\ handleScheduleAppointment
    \/ "appointments" \in mounted /\ onClose
    \/ "appointments" \in mounted /\ \E day \in Days : handleCustomCalendarSelect(day)
    \/ "appointments" \in mounted /\ handleSchedule
    \/ \E i \in 1..Len(inFlight), ok \in BOOLEAN : Settle(i, ok)

SpecFeed == FeedInit /\ [][FeedNext]_vars

\* The listeners AppointmentsScreen has open on the appointments stream.
FeedListeners == (IF feed.subscribed THEN 1 ELSE 0) + feed.extra

\* The listeners CalendarScreen has open on the events stream.
CalendarListeners == (IF subscription.active THEN 1 ELSE 0) + Len(retryListeners)

\* C28: each screen has at most one listener open on a stream, and none
\* while it is not mounted.
C28_OneListenerPerStream ==
    /\ FeedListeners <= 1
    /\ CalendarListeners <= 1
    /\ "appointments" \notin mounted => FeedListeners = 0
    /\ "calendar" \notin mounted => CalendarListeners = 0

\* ------------------------------------------------------ submission ends
\* SpecSubmit: one dialog is mounted with the required texts typed, with or
\* without a logged-in user; the user picks a date and submits, and the
\* Gateway settles every write it was handed.
SubmitInit ==
    /\ today = 2
    /\ nowHour = 10
    /\ nowMinute = 15
    /\ date = today
    /\ availableTimeSlots = <<>>
    /\ timeSlots = <<>>
    /\ slotRuns = {}
    /\ events = <<>>
    /\ appointments = <<>>
    /\ markedDates = [d \in Days |-> NoMarking]
    /\ selectedDateEvents = <<>>
    /\ subscription = NoSubscription
    /\ timers = {}
    /\ eventsSnapshot = NoSnapshot
    /\ appointmentsSnapshot = NoSnapshot
    /\ currentUser \in BOOLEAN
    /\ mounted = {}
    /\ loading = TRUE
    /\ error = FALSE
    /\ retryListeners = <<>>
    /\ feed = FeedIdle
    /\ tzOffset \in TzOffsets
    /\ inFlight = <<>>
    /\ store = EmptyStore
    /\ screen = ScreenBlank
    /\ \/ /\ scheduler = SchedulerTyped(today)
          /\ modal = ModalBlank
          /\ selected = 1
       \/ /\ selected \in Days
          /\ modal = ModalTyped(selected)
          /\ scheduler = SchedulerBlank

SubmitNext ==
    \/ DialogNext
    \/ \E day \in Days : handleCustomCalendarSelect(day)
    \/ \E day \in Days : handleConfirmDate(day)

\* An awaited Gateway call settles.
SpecSubmit ==
    /\ SubmitInit
    /\ [][SubmitNext]_vars
    /\ WF_vars(\E i \in 1..Len(inFlight), ok \in BOOLEAN : Settle(i, ok))

\* What the user entered in a form: its state but the errors and the flag.
Draft(f) == [f EXCEPT !.errors = {}, !.isSubmitting = FALSE]

\* C29: a dialog's in-flight flag is set only while a write of the dialog is
\* awaited (so it is clear after a submission that stops for want of a
\* user), it is cleared again once set, and a step in which the Gateway
\* rejects a write leaves the drafts as they are, the dialogs shown and the
\* refresh of the appointments list unarmed.
C29_SubmissionEnds ==
    /\ [](scheduler.isSubmitting => Awaited("scheduler") # {})
    /\ [](modal.isSubmitting => Awaited("modal") # {})
    /\ scheduler.isSubmitting ~> ~scheduler.isSubmitting
    /\ modal.isSubmitting ~> ~modal.isSubmitting
    /\ [][\A i \in 1..Len(inFlight) :
             Settle(i, FALSE)
             => /\ Draft(scheduler') = Draft(scheduler)
                /\ Draft(modal') = Draft(modal)
                /\ screen' = screen
                /\ feed' = feed
                /\ inFlight[i].dialog = "scheduler" => ~scheduler'.isSubmitting
                /\ inFlight[i].dialog = "modal" => ~modal'.isSubmitting]_vars

\* A submitted appointment was accepted: the flag is clear, the scheduler
\* hidden and the refresh armed.
C29_Witness ==
    /\ store # EmptyStore
    /\ inFlight = <<>>
    /\ ~scheduler.isSubmitting
    /\ ~screen.schedulerVisible
    /\ feed.refreshTimer
====
